---- MODULE Spec2Model ----
(***************************************************************************)
(* State-machine model of the notebook                                     *)
(*   notebooks/DrizzlePac/optimize_image_sampling/optimize_image_sampling  *)
(* One action per code cell (a cell with a loop is one action per          *)
(* iteration).  The kernel namespace, the files on disk and the log of     *)
(* AstroDrizzle calls are the state.                                       *)
(*                                                                         *)
(* Representation of values                                                *)
(*   file name      sequence of tokens, e.g. <<"ib1f19l6q","_","f","l",    *)
(*                  "t",".fits">>; the characters a glob pattern looks at  *)
(*                  are tokens of their own                                *)
(*   POSTARG, phase integers in units of 2^-14 (arcsec, resp. pixel)       *)
(*   pixfrac        integers in thousandths                                *)
(*   plate scales   of a WCS: integers in units of 1e-4 arcsec/pixel       *)
(*   None / value   {} / {v}                                               *)
(***************************************************************************)
EXTENDS Integers, Sequences, FiniteSets, TLC

VARIABLES pc, mast, mastExists, cwd, kernel, reads, calls, moveTodo, idx, frame

vars == <<pc, mast, mastExists, cwd, kernel, reads, calls, moveTodo, idx, frame>>

(***************************************************************************)
(* Bounds of the model                                                     *)
(***************************************************************************)
\* number of exposures the archive can deliver
NumExposures == 2
\* longest kw_list handed to get_vals_from_mdriztab in the function-level specification
MaxKwLen == 2

None == {}
Some(v) == {v}

Abs(a) == IF a < 0 THEN -a ELSE a

(***************************************************************************)
(* File names and glob patterns                                            *)
(***************************************************************************)
\* the tokens of file names, in string order
Alphabet == << ".", "0", "1", "2", "3", "4", "5", "6", "7", "8", "9", "_",
               "c", "d", "f", "f160w_", "ia0old01q", "ib1f19l6q", "ib1f19l7q",
               "ib1f19l8q", "ib1f19l9q", "l", "n", "o", "p", "r", "t", "w", "z", ".fits" >>

\* tokens that are one character long
Chars == { ".", "0", "1", "2", "3", "4", "5", "6", "7", "8", "9", "_",
           "c", "d", "f", "l", "n", "o", "p", "r", "t", "w", "z" }

DigitChars == << "0", "1", "2", "3", "4", "5", "6", "7", "8", "9" >>

Roots == << "ib1f19l6q", "ib1f19l7q", "ib1f19l8q", "ib1f19l9q" >>

TokenRank(t) == CHOOSE i \in 1..Len(Alphabet) : Alphabet[i] = t

\* string order of two names (sorted() compares strings)
RECURSIVE NameLess(_, _)
NameLess(a, b) ==
    IF a = <<>> THEN b # <<>>
    ELSE IF b = <<>> THEN FALSE
    ELSE IF Head(a) = Head(b) THEN NameLess(Tail(a), Tail(b))
    ELSE TokenRank(Head(a)) < TokenRank(Head(b))

\* sorted(names)
RECURSIVE sorted(_)
sorted(S) ==
    IF S = {} THEN <<>>
    ELSE LET m == CHOOSE x \in S : \A y \in S \ {x} : NameLess(x, y)
         IN  <<m>> \o sorted(S \ {m})

\* sorted(names, reverse=True); stands for a directory order other than the sorted one
RECURSIVE sortedDesc(_)
sortedDesc(S) ==
    IF S = {} THEN <<>>
    ELSE LET m == CHOOSE x \in S : \A y \in S \ {x} : NameLess(y, x)
         IN  <<m>> \o sortedDesc(S \ {m})

Range(s) == { s[i] : i \in 1..Len(s) }

FltSuffix == << "f", "l", "t" >>
DrzSuffix == << "d", "r", "z" >>

\* <root>_flt.fits
ExposureName(root) == <<root, "_">> \o FltSuffix \o <<".fits">>

\* <output>_drz.fits, the product AstroDrizzle writes with build=True
ProductName(output) == output \o <<"_">> \o DrzSuffix \o <<".fits">>

\* fnmatch(name, '*fl?.fits')
MatchFl(name) ==
    /\ Len(name) >= 4
    /\ name[Len(name)] = ".fits"
    /\ name[Len(name) - 1] \in Chars
    /\ name[Len(name) - 2] = "l"
    /\ name[Len(name) - 3] = "f"

\* fnmatch(name, 'f160w_0.[0-9]*drz.fits')
MatchSweep(name) ==
    /\ Len(name) >= 8
    /\ name[1] = "f160w_"
    /\ name[2] = "0"
    /\ name[3] = "."
    /\ name[4] \in Range(DigitChars)
    /\ name[Len(name)] = ".fits"
    /\ name[Len(name) - 1] = "z"
    /\ name[Len(name) - 2] = "r"
    /\ name[Len(name) - 3] = "d"

(***************************************************************************)
(* FITS exposures                                                          *)
(***************************************************************************)
keywords_ext0 == << "ROOTNAME", "ASN_ID", "TARGNAME", "DETECTOR", "FILTER", "EXPTIME",
                    "RA_TARG", "DEC_TARG", "POSTARG1", "POSTARG2", "DATE-OBS" >>
keywords_ext1 == << "ORIENTAT" >>

\* IDCSCALE of the exposures, 0.125 arcsec/pixel in units of 2^-14 arcsec
IdcScale == 2048

\* one pixel / one arcsec in units of 2^-14
Unit == 2 ^ 14

\* (POSTARG1, POSTARG2) pairs the headers can carry, units of 2^-14 arcsec:
\* 1024 = 0.0625 (0.5 pixel), 5120 = 0.3125 (2.5 pixel), 8881 = 0.542 (not a
\* float16 number), -614 = -0.0375 (-0.3 pixel), 1434 = 0.0875 (0.7 pixel)
DitherPoints == { <<0, 0>>, <<8881, 1024>>, <<-614, 1434>>, <<1434, -614>>, <<5120, -5120>> }

\* the header of an exposure: extension -> keyword -> value; the fit RMS
\* values are in units of 0.01 mas (12.34 and 8.75 mas)
Header(root, p1, p2) ==
    << [ kw \in Range(keywords_ext0) \cup {"MDRIZTAB"} |->
           CASE kw = "ROOTNAME" -> <<root>>
             [] kw = "DETECTOR" -> "IR"
             [] kw = "POSTARG1" -> p1
             [] kw = "POSTARG2" -> p2
             [] OTHER -> <<kw, 0>> ],
       [ kw \in {"ORIENTAT", "IDCSCALE", "WCSNAME", "NMATCHES", "RMS_RA", "RMS_DEC"} |->
           CASE kw = "IDCSCALE" -> IdcScale
             [] kw = "RMS_RA" -> 1234
             [] kw = "RMS_DEC" -> 875
             [] OTHER -> <<kw, 1>> ] >>

Exposure(root, p1, p2, origin) ==
    [ kind |-> "flt", origin |-> origin, hdr |-> Header(root, p1, p2) ]

\* an exposure whose WCS was not fit to a catalogue: its extension-1 header
\* has WCSNAME but no NMATCHES, RMS_RA, RMS_DEC
Unaligned(exposure) ==
    [ exposure EXCEPT !.hdr[2] =
        [ kw \in DOMAIN @ \ {"NMATCHES", "RMS_RA", "RMS_DEC"} |-> @[kw] ] ]

\* fits.getval(file, keyword, ext): extension ext is hdr[ext + 1]
getval(content, keyword, ext) == content.hdr[ext + 1][keyword]

(***************************************************************************)
(* Initial state: a fresh kernel; the working directory may hold an        *)
(* exposure left by an earlier session                                     *)
(***************************************************************************)
StaleName == <<"ia0old01q", "_", "f", "l", "c", ".fits">>

StaleDirs ==
    { <<>>,
      StaleName :> Exposure("ia0old01q", 0, 0, "stale"),
      ExposureName(Roots[1]) :> Exposure(Roots[1], 0, 0, "stale") }

Init ==
    /\ pc = "download"
    /\ mast = <<>>
    /\ mastExists = FALSE
    /\ cwd \in StaleDirs
    /\ kernel = <<>>
    /\ reads = {}
    /\ calls = <<>>
    /\ moveTodo = {}
    /\ idx = 0
    /\ frame = <<>>

\* an exception ends the run of the notebook
Raise(exc) ==
    /\ pc' = "error"
    /\ frame' = [ n \in DOMAIN frame \cup {"exc"} |-> IF n = "exc" THEN exc ELSE frame[n] ]

(***************************************************************************)
(* Cell 1: Observations.download_products                                  *)
(***************************************************************************)
\* the products the query can deliver: one FLT file per exposure, each in
\* the directory mastDownload/HST/<rootname>/
Deliverable ==
    [ {Roots[i] : i \in 1..NumExposures} ->
        DitherPoints \cup {<<"absent">>} \cup {<<"unaligned">>} ]

DownloadedFiles(choice) ==
    LET got == { r \in DOMAIN choice : choice[r] # <<"absent">> }
    IN  [ p \in { <<r, ExposureName(r)>> : r \in got } |->
            IF choice[p[1]] = <<"unaligned">>
            THEN Unaligned(Exposure(p[1], 0, 0, "mast"))
            ELSE Exposure(p[1], choice[p[1]][1], choice[p[1]][2], "mast") ]

DownloadReads == {}

Download ==
    /\ pc = "download"
    /\ \E choice \in Deliverable :
         /\ mast' = DownloadedFiles(choice)
         /\ mastExists' = (DOMAIN DownloadedFiles(choice) # {})
    /\ reads' = DownloadReads
    /\ pc' = "move"
    /\ UNCHANGED <<cwd, kernel, calls, moveTodo, idx, frame>>

(***************************************************************************)
(* Cell 2: move the files to the working directory                         *)
(***************************************************************************)
MoveReads == {}

\* glob.glob('./mastDownload/HST/*/*fl?.fits')
GlobMast(tree) == { p \in DOMAIN tree : MatchFl(p[2]) }

MoveBegin ==
    /\ pc = "move"
    /\ moveTodo' = GlobMast(mast)
    /\ reads' = MoveReads
    /\ pc' = "move_loop"
    /\ UNCHANGED <<mast, mastExists, cwd, kernel, calls, idx, frame>>

\* os.rename(flt, flt_name): the target gets the content, the source is gone
Rename(tree, dir, path) == [ n \in DOMAIN dir \cup {path[2]} |->
                               IF n = path[2] THEN tree[path] ELSE dir[n] ]

Remove(tree, path) == [ p \in DOMAIN tree \ {path} |-> tree[p] ]

\* slip: shutil.rmtree indented into the loop, so it can run before the list is used up
MoveLoopDoneEarly(todo) == TRUE

\* the loop may leave for shutil.rmtree once the glob list is used up
MoveLoopDone(todo) == todo = {}

MoveOne ==
    /\ pc = "move_loop"
    /\ \E flt \in moveTodo :
         /\ cwd' = Rename(mast, cwd, flt)
         /\ mast' = Remove(mast, flt)
         /\ moveTodo' = moveTodo \ {flt}
    /\ UNCHANGED <<pc, mastExists, kernel, reads, calls, idx, frame>>

\* shutil.rmtree('mastDownload/')
Rmtree ==
    /\ pc = "move_loop"
    /\ MoveLoopDone(moveTodo)
    /\ mastExists
    /\ mast' = <<>>
    /\ mastExists' = FALSE
    /\ pc' = "keywords"
    /\ UNCHANGED <<cwd, kernel, reads, calls, moveTodo, idx, frame>>

\* nothing was downloaded: rmtree raises FileNotFoundError
RmtreeFails ==
    /\ pc = "move_loop"
    /\ MoveLoopDone(moveTodo)
    /\ ~mastExists
    /\ Raise("FileNotFoundError")
    /\ UNCHANGED <<mast, mastExists, cwd, kernel, reads, calls, moveTodo, idx>>

\* kernel namespace after the assignments in new
Bind(ns, new) == [ n \in DOMAIN ns \cup DOMAIN new |->
                     IF n \in DOMAIN new THEN new[n] ELSE ns[n] ]

(***************************************************************************)
(* Cell 3: keyword summary table                                           *)
(***************************************************************************)
KeywordsReads == {}

\* glob.glob('*fl?.fits')
GlobFl(dir) == { n \in DOMAIN dir : MatchFl(n) }

\* slip: the two inner loops in the other order
path_dataExt1First(content) ==
    [ j \in 1..Len(keywords_ext1) |-> getval(content, keywords_ext1[j], 1) ]
    \o [ j \in 1..Len(keywords_ext0) |-> getval(content, keywords_ext0[j], 0) ]

\* the inner loops of the cell: extension-0 keywords, then extension-1 keywords
path_data(content) ==
    [ j \in 1..Len(keywords_ext0) |-> getval(content, keywords_ext0[j], 0) ]
    \o [ j \in 1..Len(keywords_ext1) |-> getval(content, keywords_ext1[j], 1) ]

\* keywords = keywords_ext0 + keywords_ext1
keywords == keywords_ext0 \o keywords_ext1

\* Table(np.array(data), names=keywords): one row per element of data
Table(data, names) == [ names |-> names, rows |-> data ]

Keywords ==
    /\ pc = "keywords"
    /\ LET flt_files == sorted(GlobFl(cwd))
           data == [ i \in 1..Len(flt_files) |-> path_data(cwd[flt_files[i]]) ]
       IN  kernel' = Bind(kernel, [ flt_files |-> flt_files,
                                    table |-> Table(data, keywords) ])
    /\ reads' = KeywordsReads
    /\ pc' = "dither"
    /\ UNCHANGED <<mast, mastExists, cwd, calls, moveTodo, idx, frame>>

(***************************************************************************)
(* Cell 4: dither pattern and pixel phase                                  *)
(***************************************************************************)
DitherReads == { "flt_files" }

\* distance between neighbouring float16 numbers at magnitude m (units of
\* 2^-14): 11 significant bits, so one unit below 2^-3 and doubling per binade
RECURSIVE Spacing(_)
Spacing(m) == IF m < 2048 THEN 1 ELSE 2 * Spacing(m \div 2)

\* storing x into an array of dtype float16: round to nearest, ties to even
Float16(x) ==
    LET m  == Abs(x)
        sp == Spacing(m)
        q  == m \div sp
        r  == m % sp
        up == \/ 2 * r > sp
              \/ 2 * r = sp /\ q % 2 = 1
        v  == (IF up THEN q + 1 ELSE q) * sp
    IN  IF x < 0 THEN -v ELSE v

\* a / b for an offset a and a plate scale b, in units of 2^-14 pixel
Divide(a, b) ==
    LET q == (Abs(a) * Unit) \div b
    IN  IF a < 0 THEN -q ELSE q

\* np.modf(q)[0]: the fractional part, with the sign of q
ModfFrac(q) == IF q < 0 THEN -((-q) % Unit) ELSE q % Unit

\* abs(np.modf(postarg / plate_scale)[0]) stored as float16
PixelPhase(postarg, plate_scale) ==
    Float16(Abs(ModfFrac(Divide(postarg, plate_scale))))

Dither ==
    /\ pc = "dither"
    /\ Len(kernel.flt_files) > 0
    /\ LET flt_files == kernel.flt_files
           plate_scale == getval(cwd[flt_files[1]], "IDCSCALE", 1)
           postarg1 == [ i \in 1..Len(flt_files) |->
                           Float16(getval(cwd[flt_files[i]], "POSTARG1", 0)) ]
           postarg2 == [ i \in 1..Len(flt_files) |->
                           Float16(getval(cwd[flt_files[i]], "POSTARG2", 0)) ]
       IN  kernel' = Bind(kernel,
              [ plate_scale |-> plate_scale,
                postarg1 |-> postarg1,
                postarg2 |-> postarg2,
                x_phase |-> [ i \in 1..Len(flt_files) |-> PixelPhase(postarg1[i], plate_scale) ],
                y_phase |-> [ i \in 1..Len(flt_files) |-> PixelPhase(postarg2[i], plate_scale) ] ])
    /\ reads' = DitherReads
    /\ pc' = "align"
    /\ UNCHANGED <<mast, mastExists, cwd, calls, moveTodo, idx, frame>>

(***************************************************************************)
(* Cell 5: alignment inspection                                            *)
(***************************************************************************)
AlignReads == { "flt_files" }

ext_0_kws == << "DETECTOR", "EXPTIME" >>
ext_1_kws == << "WCSNAME", "NMATCHES", "RMS_RA", "RMS_DEC" >>
rms_kws == << "RMS_RA", "RMS_DEC" >>

\* plate scale (arcsec/pixel) in units of 1e-4
det_scale == [ IR |-> 1283, UVIS |-> 396, WFC |-> 500 ]

\* num / den rounded to an integer, ties to even (np.around, np.round)
RoundHalfEven(num, den) ==
    LET q == num \div den
        r == num % den
    IN  IF 2 * r > den \/ (2 * r = den /\ q % 2 = 1) THEN q + 1 ELSE q

\* col_dict[k] of a defaultdict(list)
Col(d, k) == IF k \in DOMAIN d THEN d[k] ELSE <<>>

\* col_dict[k].append(v)
ColAppend(d, k, v) == Bind(d, k :> Append(Col(d, k), v))

\* 'RMS' in kw
IsRms(kw) == kw \in { "RMS_RA", "RMS_DEC" }

\* np.around(hdr1[kw], 1) in units of 0.1 mas, or hdr1[kw] itself
Ext1Val(hdr1, kw) == IF IsRms(kw) THEN RoundHalfEven(hdr1[kw], 10) ELSE hdr1[kw]

\* np.round(hdr1[kw]/1000./det_scale[detector], 2) in units of 0.01 pixel
RmsPix(hdr1, kw, detector) == RoundHalfEven(10 * hdr1[kw], det_scale[detector])

\* slip: the pixel value appended to the column of the keyword itself
PixColumnSame(kw) == kw

\* f'{kw}_pix'
PixColumn(kw) == CASE kw = "RMS_RA" -> "RMS_RA_pix"
                   [] kw = "RMS_DEC" -> "RMS_DEC_pix"

\* the three inner loops from position i of their keyword list on; a loop
\* stops where hdr[kw] raises KeyError
RECURSIVE AppendExt0(_, _, _)
AppendExt0(d, hdr0, i) ==
    IF i > Len(ext_0_kws) \/ ext_0_kws[i] \notin DOMAIN hdr0 THEN d
    ELSE AppendExt0(ColAppend(d, ext_0_kws[i], hdr0[ext_0_kws[i]]), hdr0, i + 1)

RECURSIVE AppendExt1(_, _, _)
AppendExt1(d, hdr1, i) ==
    IF i > Len(ext_1_kws) \/ ext_1_kws[i] \notin DOMAIN hdr1 THEN d
    ELSE AppendExt1(ColAppend(d, ext_1_kws[i], Ext1Val(hdr1, ext_1_kws[i])), hdr1, i + 1)

RECURSIVE AppendPix(_, _, _, _)
AppendPix(d, hdr1, detector, i) ==
    IF i > Len(rms_kws) THEN d
    ELSE AppendPix(ColAppend(d, PixColumn(rms_kws[i]), RmsPix(hdr1, rms_kws[i], detector)),
                   hdr1, detector, i + 1)

\* every header lookup of one iteration succeeds
AlignKeysPresent(hdr0, hdr1) ==
    /\ Range(ext_0_kws) \subseteq DOMAIN hdr0
    /\ Range(ext_1_kws) \subseteq DOMAIN hdr1
    /\ hdr0["DETECTOR"] \in DOMAIN det_scale

\* the body of the loop for file f, as far as it gets
AlignBody(d, f, hdr0, hdr1) ==
    LET d1 == ColAppend(d, "filename", f)
        d2 == AppendExt0(d1, hdr0, 1)
        d3 == IF Range(ext_0_kws) \subseteq DOMAIN hdr0 THEN AppendExt1(d2, hdr1, 1) ELSE d2
    IN  IF AlignKeysPresent(hdr0, hdr1)
        THEN AppendPix(d3, hdr1, hdr0["DETECTOR"], 1)
        ELSE d3

AlignBegin ==
    /\ pc = "align"
    /\ kernel' = Bind(kernel, [ col_dict |-> <<>> ])
    /\ idx' = 1
    /\ reads' = AlignReads
    /\ pc' = "align_loop"
    /\ UNCHANGED <<mast, mastExists, cwd, calls, moveTodo, frame>>

AlignStep ==
    /\ pc = "align_loop"
    /\ idx <= Len(kernel.flt_files)
    /\ LET f == kernel.flt_files[idx]
           hdr0 == cwd[f].hdr[1]
           hdr1 == cwd[f].hdr[2]
       IN  /\ AlignKeysPresent(hdr0, hdr1)
           /\ kernel' = Bind(kernel, [ col_dict |-> AlignBody(kernel.col_dict, f, hdr0, hdr1) ])
    /\ idx' = idx + 1
    /\ UNCHANGED <<pc, mast, mastExists, cwd, reads, calls, moveTodo, frame>>

\* a header lookup raises KeyError part way through the iteration
AlignRaise ==
    /\ pc = "align_loop"
    /\ idx <= Len(kernel.flt_files)
    /\ LET f == kernel.flt_files[idx]
           hdr0 == cwd[f].hdr[1]
           hdr1 == cwd[f].hdr[2]
       IN  /\ ~AlignKeysPresent(hdr0, hdr1)
           /\ kernel' = Bind(kernel, [ col_dict |-> AlignBody(kernel.col_dict, f, hdr0, hdr1) ])
    /\ Raise("KeyError")
    /\ UNCHANGED <<mast, mastExists, cwd, reads, calls, moveTodo, idx>>

\* wcstable = Table(col_dict): one table column per key of col_dict
AlignTable ==
    /\ pc = "align_loop"
    /\ idx > Len(kernel.flt_files)
    /\ kernel' = Bind(kernel, [ wcstable |-> kernel.col_dict ])
    /\ idx' = 0
    /\ pc' = "mdz"
    /\ UNCHANGED <<mast, mastExists, cwd, reads, calls, moveTodo, frame>>

(***************************************************************************)
(* Cell 6: locate the MDRIZTAB reference file                              *)
(***************************************************************************)
MdzReads == { "flt_files" }

MdzSync ==
    /\ pc = "mdz"
    /\ Len(kernel.flt_files) > 0
    /\ kernel' = Bind(kernel, [ mdz |-> getval(cwd[kernel.flt_files[1]], "MDRIZTAB", 0) ])
    /\ reads' = MdzReads
    /\ pc' = "def"
    /\ UNCHANGED <<mast, mastExists, cwd, calls, moveTodo, idx, frame>>

(***************************************************************************)
(* Cells 7 and 8: get_vals_from_mdriztab and its call                      *)
(***************************************************************************)
DefaultKwList == << "driz_sep_bits", "combine_type", "driz_cr_snr", "driz_cr_scale", "final_bits" >>

\* parameter names of an MDRIZTAB row
MdrizKeys == Range(DefaultKwList) \cup { "final_pixfrac" }

MdrizVal(k) == <<"mdriztab", k>>

\* what drizzlepac.processInput.getMdriztabPars can return for the exposures:
\* the full row, or the row of a table that has no driz_cr_scale column
MdrizTables ==
    { [ k \in MdrizKeys |-> MdrizVal(k) ],
      [ k \in MdrizKeys \ {"driz_cr_scale"} |-> MdrizVal(k) ] }

DefReads == {}

DefGetVals ==
    /\ pc = "def"
    /\ kernel' = Bind(kernel, [ get_vals_from_mdriztab |-> "function" ])
    /\ reads' = DefReads
    /\ pc' = "select"
    /\ UNCHANGED <<mast, mastExists, cwd, calls, moveTodo, idx, frame>>

SelectReads == { "get_vals_from_mdriztab", "flt_files" }

\* entry of get_vals_from_mdriztab: mdriz_dict fetched, requested_params = {}
GetValsFrame(caller, kw_list, mdriz_dict) ==
    [ caller |-> caller, kw_list |-> kw_list, mdriz_dict |-> mdriz_dict,
      requested_params |-> <<>>, k |-> 1 ]

Select ==
    /\ pc = "select"
    /\ kernel.get_vals_from_mdriztab = "function"
    /\ \E tab \in MdrizTables :
         frame' = GetValsFrame("cell", DefaultKwList, tab)
    /\ reads' = SelectReads
    /\ pc' = "gv_loop"
    /\ UNCHANGED <<mast, mastExists, cwd, kernel, calls, moveTodo, idx>>

\* slip: the whole MDRIZTAB row is copied instead of the one parameter
SelectParamWholeRow(requested, mdriz_dict, k) == Bind(requested, mdriz_dict)

\* requested_params[k] = mdriz_dict[k]
SelectParam(requested, mdriz_dict, k) == Bind(requested, k :> mdriz_dict[k])

GvStep ==
    /\ pc = "gv_loop"
    /\ frame.k <= Len(frame.kw_list)
    /\ frame.kw_list[frame.k] \in DOMAIN frame.mdriz_dict
    /\ frame' = [ frame EXCEPT
                    !.requested_params = SelectParam(@, frame.mdriz_dict, frame.kw_list[frame.k]),
                    !.k = @ + 1 ]
    /\ UNCHANGED <<pc, mast, mastExists, cwd, kernel, reads, calls, moveTodo, idx>>

\* mdriz_dict[k] raises KeyError
GvRaise ==
    /\ pc = "gv_loop"
    /\ frame.k <= Len(frame.kw_list)
    /\ frame.kw_list[frame.k] \notin DOMAIN frame.mdriz_dict
    /\ Raise("KeyError")
    /\ UNCHANGED <<mast, mastExists, cwd, kernel, reads, calls, moveTodo, idx>>

\* return requested_params; in the notebook the caller binds selected_params
GvReturn ==
    /\ pc = "gv_loop"
    /\ frame.k > Len(frame.kw_list)
    /\ IF frame.caller = "cell"
       THEN /\ kernel' = Bind(kernel, [ selected_params |-> frame.requested_params ])
            /\ frame' = <<>>
            /\ pc' = "drizzle_noopt"
       ELSE /\ kernel' = kernel
            /\ frame' = Bind(frame, [ result |-> frame.requested_params ])
            /\ pc' = "returned"
    /\ UNCHANGED <<mast, mastExists, cwd, reads, calls, moveTodo, idx>>

(***************************************************************************)
(* AstroDrizzle (drizzlepac): the product it writes for a call             *)
(***************************************************************************)
\* plate scale of the exposures in units of 1e-4 arcsec/pixel
NativeScale(dir, files) == (getval(dir[files[1]], "IDCSCALE", 1) * 10000) \div Unit

\* extent of the sky covered by the exposures, units of 1e-4 arcsec
Footprint(dir, files) == 1120 * NativeScale(dir, files)

\* the output frame: final_scale (or the native scale), north up, centred
OutputWCS(dir, args) ==
    LET scale == IF args.final_scale = None
                 THEN NativeScale(dir, args.input)
                 ELSE CHOOSE v \in args.final_scale : TRUE
        naxis == Footprint(dir, args.input) \div scale
    IN  [ scale |-> scale, naxis |-> naxis, crpix |-> naxis \div 2 ]

\* final_pixfrac defaults to 1.0
DrizzledPixfrac(args) ==
    IF "final_pixfrac" \in DOMAIN args THEN args.final_pixfrac ELSE 1000

Drizzled(dir, args) ==
    LET w == OutputWCS(dir, args)
    IN  [ kind |-> "drz",
          hdr |-> [ TARGNAME |-> getval(dir[args.input[1]], "TARGNAME", 0),
                    D001SCAL |-> w.scale,
                    D001PIXF |-> DrizzledPixfrac(args),
                    NDRIZIM |-> Len(args.input) ],
          wcs |-> w,
          sci |-> <<"sci", args.output>>,
          wht |-> <<"wht", args.output>> ]

\* the call returns after writing <output>_drz.fits into the working directory
AstroDrizzle(args) ==
    /\ calls' = Append(calls, args)
    /\ cwd' = Bind(cwd, ProductName(args.output) :> Drizzled(cwd, args))

(***************************************************************************)
(* Cell 9: the two drizzle calls                                           *)
(***************************************************************************)
DrizzleReads == { "flt_files", "selected_params" }

NooptArgs(flt_files, selected_params) ==
    Bind(selected_params,
         [ input |-> flt_files,
           output |-> <<"f160w_", "n", "o", "o", "p", "t">>,
           context |-> FALSE, build |-> TRUE, preserve |-> FALSE,
           skymethod |-> "match",
           driz_separate |-> FALSE, median |-> FALSE, blot |-> FALSE, driz_cr |-> FALSE,
           final_wcs |-> TRUE,
           final_rot |-> 0,
           final_scale |-> None ])

\* slip: the second call with another sky method
OptArgsLocalSky(flt_files, selected_params) ==
    Bind(selected_params,
         [ input |-> flt_files,
           output |-> <<"f160w_", "o", "p", "t">>,
           context |-> FALSE, build |-> TRUE, preserve |-> FALSE,
           skymethod |-> "localmin",
           driz_separate |-> FALSE, median |-> FALSE, blot |-> FALSE, driz_cr |-> FALSE,
           final_wcs |-> TRUE,
           final_rot |-> 0,
           final_scale |-> Some(650),
           final_pixfrac |-> 800 ])

OptArgs(flt_files, selected_params) ==
    Bind(selected_params,
         [ input |-> flt_files,
           output |-> <<"f160w_", "o", "p", "t">>,
           context |-> FALSE, build |-> TRUE, preserve |-> FALSE,
           skymethod |-> "match",
           driz_separate |-> FALSE, median |-> FALSE, blot |-> FALSE, driz_cr |-> FALSE,
           final_wcs |-> TRUE,
           final_rot |-> 0,
           final_scale |-> Some(650),
           final_pixfrac |-> 800 ])

DrizzleNoopt ==
    /\ pc = "drizzle_noopt"
    /\ AstroDrizzle(NooptArgs(kernel.flt_files, kernel.selected_params))
    /\ reads' = DrizzleReads
    /\ pc' = "drizzle_opt"
    /\ UNCHANGED <<mast, mastExists, kernel, moveTodo, idx, frame>>

DrizzleOpt ==
    /\ pc = "drizzle_opt"
    /\ AstroDrizzle(OptArgs(kernel.flt_files, kernel.selected_params))
    /\ pc' = "results"
    /\ UNCHANGED <<mast, mastExists, kernel, reads, moveTodo, idx, frame>>

(***************************************************************************)
(* Cells 10 and 11: the non-optimized product, and the comparison figure   *)
(***************************************************************************)
ResultsReads == {}

NooptProduct == ProductName(<<"f160w_", "n", "o", "o", "p", "t">>)
OptProduct == ProductName(<<"f160w_", "o", "p", "t">>)

Results ==
    /\ pc = "results"
    /\ LET hdu == cwd[NooptProduct]
       IN  kernel' = Bind(kernel, [ im1wcs |-> hdu.wcs, sci1 |-> hdu.sci, wht1 |-> hdu.wht,
                                    norm1 |-> <<"norm", hdu.sci, "-0.05", "100">> ])
    /\ reads' = ResultsReads
    /\ pc' = "compare"
    /\ UNCHANGED <<mast, mastExists, cwd, calls, moveTodo, idx, frame>>

\* sky offset (1e-4 arcsec from the reference point) of pixel coordinate p
pixel_to_sky(p, w) == (p - w.crpix) * w.scale

\* pixel coordinate of sky offset s, cut to an integer as .astype(int) does
\* (the coordinates are positive, so cutting is the floor)
to_pixel_int(s, w) == (s \div w.scale) + w.crpix

\* wcs.utils.pixel_to_skycoord([825, 875], [930, 980], w): <<RAs, Decs>>
pixel_to_skycoord(xs, ys, w) ==
    << [ i \in 1..Len(xs) |-> pixel_to_sky(xs[i], w) ],
       [ i \in 1..Len(ys) |-> pixel_to_sky(ys[i], w) ] >>

\* radeclims.to_pixel(w)[axis].astype(int), axis 0 is element 1
LimsInt(radeclims, w, axis) ==
    [ i \in 1..Len(radeclims[axis + 1]) |-> to_pixel_int(radeclims[axis + 1][i], w) ]

CompareReads == { "im1wcs", "sci1" }

Compare ==
    /\ pc = "compare"
    /\ LET hdu == cwd[OptProduct]
       IN  kernel' = Bind(kernel,
              [ radeclims |-> pixel_to_skycoord(<<825, 875>>, <<930, 980>>, kernel.im1wcs),
                im2wcs |-> hdu.wcs, sci2 |-> hdu.sci, wht2 |-> hdu.wht,
                norm1 |-> <<"norm", hdu.sci, "0.70", "4.0">>,
                norm2 |-> <<"norm", hdu.sci, "0.18", "1.0">> ])
    /\ reads' = CompareReads
    /\ pc' = "sweep"
    /\ UNCHANGED <<mast, mastExists, cwd, calls, moveTodo, idx, frame>>

(***************************************************************************)
(* Cell 12: the final_pixfrac sweep                                        *)
(***************************************************************************)
SweepReads == { "flt_files", "selected_params" }

\* np.arange(start, stop, step): ceil((stop - start) / step) values
arange(start, stop, step) ==
    [ i \in 1..((stop - start + step - 1) \div step) |-> start + (i - 1) * step ]

\* pixfracs = np.arange(0.1, 1.1, 0.1), in thousandths
pixfracs == arange(100, 1100, 100)

\* '{:.1f}'.format(v): v rounded to tenths (ties to even), as characters
Format1f(v) ==
    LET q == v \div 100
        r == v % 100
        t == IF r > 50 \/ (r = 50 /\ q % 2 = 1) THEN q + 1 ELSE q
    IN  << DigitChars[(t \div 10) + 1], ".", DigitChars[(t % 10) + 1] >>

\* outname = 'f160w_{:.1f}'.format(pixfrac)
outname(pixfrac) == <<"f160w_">> \o Format1f(pixfrac)

\* slip: the sweep calls with the cosmic-ray flagging step left on
SweepArgsCROn(flt_files, selected_params, pixfrac) ==
    Bind(selected_params,
         [ input |-> flt_files,
           output |-> outname(pixfrac),
           context |-> FALSE, build |-> TRUE, preserve |-> FALSE,
           skymethod |-> "match",
           driz_separate |-> FALSE, median |-> FALSE, blot |-> FALSE, driz_cr |-> TRUE,
           final_pixfrac |-> pixfrac,
           final_wcs |-> TRUE,
           final_rot |-> 0,
           final_scale |-> Some(650) ])

SweepArgs(flt_files, selected_params, pixfrac) ==
    Bind(selected_params,
         [ input |-> flt_files,
           output |-> outname(pixfrac),
           context |-> FALSE, build |-> TRUE, preserve |-> FALSE,
           skymethod |-> "match",
           driz_separate |-> FALSE, median |-> FALSE, blot |-> FALSE, driz_cr |-> FALSE,
           final_pixfrac |-> pixfrac,
           final_wcs |-> TRUE,
           final_rot |-> 0,
           final_scale |-> Some(650) ])

SweepBegin ==
    /\ pc = "sweep"
    /\ kernel' = Bind(kernel, [ pixfracs |-> pixfracs ])
    /\ idx' = 1
    /\ reads' = SweepReads
    /\ pc' = "sweep_loop"
    /\ UNCHANGED <<mast, mastExists, cwd, calls, moveTodo, frame>>

\* slip: the loop stops one element early
SweepNextSkipsLast(i, fracs) == i < Len(fracs)

\* the next element of pixfracs, if the loop has one
SweepNext(i, fracs) == i <= Len(fracs)

SweepCall ==
    /\ pc = "sweep_loop"
    /\ SweepNext(idx, kernel.pixfracs)
    /\ AstroDrizzle(SweepArgs(kernel.flt_files, kernel.selected_params, kernel.pixfracs[idx]))
    /\ idx' = idx + 1
    /\ UNCHANGED <<pc, mast, mastExists, kernel, reads, moveTodo, frame>>

SweepEnd ==
    /\ pc = "sweep_loop"
    /\ ~SweepNext(idx, kernel.pixfracs)
    /\ idx' = 0
    /\ pc' = "sweepfig"
    /\ UNCHANGED <<mast, mastExists, cwd, kernel, reads, calls, moveTodo, frame>>

(***************************************************************************)
(* Cell 13: science and weight images of three sweep products              *)
(***************************************************************************)
SweepFigReads == { "norm2", "radeclims", "im2wcs" }

SweepFigFiles == << ProductName(<<"f160w_", "0", ".", "1">>),
                    ProductName(<<"f160w_", "0", ".", "8">>),
                    ProductName(<<"f160w_", "1", ".", "0">>) >>

SweepFig ==
    /\ pc = "sweepfig"
    /\ reads' = SweepFigReads
    /\ IF Range(SweepFigFiles) \subseteq DOMAIN cwd
       THEN /\ kernel' = Bind(kernel,
                   [ sci1 |-> cwd[SweepFigFiles[1]].sci, wht1 |-> cwd[SweepFigFiles[1]].wht,
                     sci2 |-> cwd[SweepFigFiles[2]].sci, wht2 |-> cwd[SweepFigFiles[2]].wht,
                     sci3 |-> cwd[SweepFigFiles[3]].sci, wht3 |-> cwd[SweepFigFiles[3]].wht,
                     norm3 |-> <<"norm", cwd[SweepFigFiles[2]].wht, "400", "600">>,
                     figlims |-> << LimsInt(kernel.radeclims, kernel.im2wcs, 0),
                                    LimsInt(kernel.radeclims, kernel.im2wcs, 1) >> ])
            /\ pc' = "eval"
            /\ frame' = frame
       ELSE /\ kernel' = kernel
            /\ Raise("FileNotFoundError")
    /\ UNCHANGED <<mast, mastExists, cwd, calls, moveTodo, idx>>

(***************************************************************************)
(* Cell 14: RMS/median of the weight images against final_pixfrac          *)
(***************************************************************************)
\* slip: the cell also uses the weight array left by the comparison cell
EvalReadsStaleWht == { "radeclims", "im1wcs", "wht2" }

EvalReads == { "radeclims", "im1wcs" }

\* glob.glob('f160w_0.[0-9]*drz.fits')
GlobSweep(dir) == { n \in DOMAIN dir : MatchSweep(n) }

\* glob returns the names in directory order, which is not specified
GlobOrders(S) == { sorted(S), sortedDesc(S) }

\* the WCS whose pixel grid xlims and ylims are computed in
EvalWCS(ns) == ns.im1wcs

EvalBegin ==
    /\ pc = "eval"
    /\ \E whtlist \in GlobOrders(GlobSweep(cwd)) :
         kernel' = Bind(kernel,
            [ whtlist |-> whtlist,
              std_med |-> <<>>,
              fraclist |-> <<>>,
              xlims |-> LimsInt(kernel.radeclims, EvalWCS(kernel), 0),
              ylims |-> LimsInt(kernel.radeclims, EvalWCS(kernel), 1) ])
    /\ idx' = 1
    /\ reads' = EvalReads
    /\ pc' = "eval_loop"
    /\ UNCHANGED <<mast, mastExists, cwd, calls, moveTodo, frame>>

\* np.std(region) / np.median(region) of the weight array over rows
\* ylims[0]:ylims[1] and columns xlims[0]:xlims[1]
RmsOverMedian(wht, ylims, xlims) == [ of |-> wht, rows |-> ylims, cols |-> xlims ]

\* element i of std_med and of fraclist is written in iteration i; the
\* elements not yet written are left out of the sequences
EvalStep ==
    /\ pc = "eval_loop"
    /\ idx <= Len(kernel.whtlist)
    /\ LET hdu == cwd[kernel.whtlist[idx]]
           first == IF idx = 1
                    THEN [ target |-> hdu.hdr.TARGNAME, scale |-> hdu.hdr.D001SCAL,
                           nimg |-> hdu.hdr.NDRIZIM ]
                    ELSE <<>>
       IN  kernel' = Bind(Bind(kernel, first),
              [ std_med |-> Append(kernel.std_med,
                                   RmsOverMedian(hdu.wht, kernel.ylims, kernel.xlims)),
                fraclist |-> Append(kernel.fraclist, hdu.hdr.D001PIXF) ])
    /\ idx' = idx + 1
    /\ UNCHANGED <<pc, mast, mastExists, cwd, reads, calls, moveTodo, frame>>

\* the plotting commands end the notebook
EvalPlot ==
    /\ pc = "eval_loop"
    /\ idx > Len(kernel.whtlist)
    /\ idx' = 0
    /\ pc' = "done"
    /\ UNCHANGED <<mast, mastExists, cwd, kernel, reads, calls, moveTodo, frame>>

Next ==
    \/ Download
    \/ MoveBegin
    \/ MoveOne
    \/ Rmtree
    \/ RmtreeFails
    \/ Keywords
    \/ Dither
    \/ AlignBegin
    \/ AlignStep
    \/ AlignRaise
    \/ AlignTable
    \/ MdzSync
    \/ DefGetVals
    \/ Select
    \/ GvStep
    \/ GvRaise
    \/ GvReturn
    \/ DrizzleNoopt
    \/ DrizzleOpt
    \/ Results
    \/ Compare
    \/ SweepBegin
    \/ SweepCall
    \/ SweepEnd
    \/ SweepFig
    \/ EvalBegin
    \/ EvalStep
    \/ EvalPlot

Spec == Init /\ [][Next]_vars

(***************************************************************************)
(* get_vals_from_mdriztab on its own: any kw_list, any MDRIZTAB row        *)
(***************************************************************************)
RECURSIVE SeqsUpTo(_, _)
SeqsUpTo(S, n) ==
    IF n = 0 THEN { <<>> }
    ELSE LET shorter == SeqsUpTo(S, n - 1)
         IN  shorter \cup { Append(q, x) : q \in shorter, x \in S }

KwLists == SeqsUpTo(MdrizKeys, MaxKwLen) \cup { DefaultKwList }

AnyMdrizTables == { [ k \in D |-> MdrizVal(k) ] : D \in SUBSET MdrizKeys }

InitMdriz ==
    /\ pc = "gv_loop"
    /\ \E kw_list \in KwLists, tab \in AnyMdrizTables :
         frame = GetValsFrame("top", kw_list, tab)
    /\ mast = <<>>
    /\ mastExists = FALSE
    /\ cwd = <<>>
    /\ kernel = [ get_vals_from_mdriztab |-> "function" ]
    /\ reads = {}
    /\ calls = <<>>
    /\ moveTodo = {}
    /\ idx = 0

NextMdriz ==
    \/ GvStep
    \/ GvRaise
    \/ GvReturn

SpecMdriz == InitMdriz /\ [][NextMdriz]_vars

(***************************************************************************)
(* Properties                                                              *)
(***************************************************************************)
Defined(n) == n \in DOMAIN kernel

AfterSweep == pc \in { "sweepfig", "eval", "eval_loop", "done" }

\* the final_pixfrac values 0.1, 0.2, ..., 1.0 in thousandths
TenPixfracs == { 100 * k : k \in 1..10 }

\* C1: after the evaluation step the sweep table (fraclist paired with
\* std_med) has exactly one entry for each final_pixfrac 0.1, 0.2, ..., 1.0
\* the sweep drizzled, and no entry for any other product.
C1_SweepTableComplete ==
    pc = "done" =>
        /\ Len(kernel.std_med) = Len(kernel.fraclist)
        /\ \A f \in TenPixfracs :
             Cardinality({ i \in 1..Len(kernel.fraclist) : kernel.fraclist[i] = f }) = 1
        /\ \A i \in 1..Len(kernel.fraclist) :
             /\ kernel.fraclist[i] \in TenPixfracs
             /\ kernel.std_med[i].of \notin { <<"wht", <<"f160w_", "n", "o", "o", "p", "t">>>>,
                                              <<"wht", <<"f160w_", "o", "p", "t">>>> }

\* the calls made after the two calls of the drizzling step
SweepCalls == IF Len(calls) > 2 THEN SubSeq(calls, 3, Len(calls)) ELSE <<>>

SweepOutputs ==
    << <<"f160w_", "0", ".", "1">>, <<"f160w_", "0", ".", "2">>, <<"f160w_", "0", ".", "3">>,
       <<"f160w_", "0", ".", "4">>, <<"f160w_", "0", ".", "5">>, <<"f160w_", "0", ".", "6">>,
       <<"f160w_", "0", ".", "7">>, <<"f160w_", "0", ".", "8">>, <<"f160w_", "0", ".", "9">>,
       <<"f160w_", "1", ".", "0">> >>

\* C2: the sweep calls AstroDrizzle exactly once per final_pixfrac 0.1 ...
\* 1.0, in increasing order, each call with final_scale 0.065 and output
\* 'f160w_' followed by the pixfrac printed to one decimal place.
C2_SweepCallsOncePerPixfrac ==
    /\ Len(SweepCalls) <= 10
    /\ AfterSweep => Len(SweepCalls) = 10
    /\ \A i \in 1..Len(SweepCalls) :
         /\ SweepCalls[i].final_pixfrac = 100 * i
         /\ SweepCalls[i].final_scale = Some(650)
         /\ SweepCalls[i].output = SweepOutputs[i]

C2_Witness == pc = "done" /\ Len(calls) = 12

ExpectedColumns ==
    << "ROOTNAME", "ASN_ID", "TARGNAME", "DETECTOR", "FILTER", "EXPTIME",
       "RA_TARG", "DEC_TARG", "POSTARG1", "POSTARG2", "DATE-OBS", "ORIENTAT" >>

\* C3: the keyword table has one row per file matching '*fl?.fits', in
\* sorted filename order, each row with the same 12 columns: the 11
\* extension-0 keywords in order, then ORIENTAT of extension 1.
C3_OneRowPerFile ==
    Defined("table") =>
        LET t == kernel.table
            found == { n \in DOMAIN cwd : MatchFl(n) }
        IN  /\ t.names = ExpectedColumns
            /\ Len(t.rows) = Cardinality(found)
            /\ \A i \in 1..Len(t.rows) :
                 /\ Len(t.rows[i]) = 12
                 /\ \E n \in found :
                      /\ t.rows[i][1] = <<n[1]>>
                      /\ \A j \in 1..11 : t.rows[i][j] = cwd[n].hdr[1][ExpectedColumns[j]]
                      /\ t.rows[i][12] = cwd[n].hdr[2]["ORIENTAT"]
                      /\ \A k \in 1..Len(t.rows) :
                           k > i => \E m \in found : /\ t.rows[k][1] = <<m[1]>>
                                                     /\ NameLess(n, m)

C3_Witness == Defined("table") /\ Len(kernel.table.rows) >= 2

\* C4 as stated: every step is independent and stateless, no step reads
\* in-memory state produced by another step.
C4_NoStepReadsAnother == reads = {}

CarriedNames == { "flt_files", "get_vals_from_mdriztab", "selected_params",
                  "im1wcs", "sci1", "radeclims", "im2wcs", "norm2" }

\* C4 amended: the steps run in sequence but share the kernel: a step reads
\* only names an earlier step has assigned, all of them among flt_files,
\* get_vals_from_mdriztab, selected_params, im1wcs, sci1, radeclims, im2wcs
\* and norm2; the download, move, keyword-table, function-definition and
\* results steps read none.
C4_StepsShareKernelNames ==
    /\ reads \subseteq CarriedNames
    /\ reads \subseteq DOMAIN kernel
    /\ pc \in { "download", "move", "move_loop", "keywords", "dither", "select", "compare" }
         => reads = {}

C4_Witness == pc = "done" /\ reads = { "radeclims", "im1wcs" }

\* C5: for every sweep weight image the slice bounds of the RMS/median
\* statistic are the bounds of radeclims in that image's own pixel grid.
C5_RegionInOwnGrid ==
    Defined("std_med") =>
        \A i \in 1..Len(kernel.std_med) :
            LET w == cwd[kernel.whtlist[i]].wcs
            IN  /\ kernel.std_med[i].cols = LimsInt(kernel.radeclims, w, 0)
                /\ kernel.std_med[i].rows = LimsInt(kernel.radeclims, w, 1)

\* C6: every AstroDrizzle call (non-optimized, optimized, ten sweep calls)
\* has driz_separate, median, blot and driz_cr all False.
C6_CRRejectionOff ==
    \A i \in 1..Len(calls) :
        /\ calls[i].driz_separate = FALSE
        /\ calls[i].median = FALSE
        /\ calls[i].blot = FALSE
        /\ calls[i].driz_cr = FALSE

C6_Witness == Len(calls) = 12

\* the arguments of a call other than output, final_scale and final_pixfrac
OtherArgs(c) ==
    [ k \in DOMAIN c \ { "output", "final_scale", "final_pixfrac" } |-> c[k] ]

\* C7: the drizzling step calls AstroDrizzle exactly twice: first output
\* 'f160w_noopt' with final_scale None and no final_pixfrac, then output
\* 'f160w_opt' with final_scale 0.065 and final_pixfrac 0.8; all other
\* arguments of the two calls are identical.
C7_TwoDrizzleCalls ==
    /\ pc \in { "download", "move", "move_loop", "keywords", "dither", "align", "align_loop",
                "mdz", "def", "select", "gv_loop", "drizzle_noopt" } => Len(calls) = 0
    /\ pc = "drizzle_opt" => Len(calls) = 1
    /\ pc \in { "results", "compare", "sweep" } => Len(calls) = 2
    /\ Len(calls) >= 1 =>
         /\ calls[1].output = <<"f160w_", "n", "o", "o", "p", "t">>
         /\ calls[1].final_scale = None
         /\ "final_pixfrac" \notin DOMAIN calls[1]
    /\ Len(calls) >= 2 =>
         /\ calls[2].output = <<"f160w_", "o", "p", "t">>
         /\ calls[2].final_scale = Some(650)
         /\ "final_pixfrac" \in DOMAIN calls[2]
         /\ calls[2].final_pixfrac = 800
         /\ OtherArgs(calls[1]) = OtherArgs(calls[2])

C7_Witness == pc = "results" /\ Len(calls) = 2

\* C8: get_vals_from_mdriztab returns a dictionary with exactly the keys of
\* kw_list, each mapped to its MDRIZTAB value (for the default kw_list the
\* five fixed keys), when all keys are in the MDRIZTAB dictionary; if a
\* requested key is absent it raises and returns nothing.
C8_OnlySelectedParams ==
    /\ pc = "returned" =>
         /\ Range(frame.kw_list) \subseteq DOMAIN frame.mdriz_dict
         /\ DOMAIN frame.result = Range(frame.kw_list)
         /\ \A k \in Range(frame.kw_list) : frame.result[k] = frame.mdriz_dict[k]
         /\ frame.kw_list = DefaultKwList =>
              DOMAIN frame.result = { "driz_sep_bits", "combine_type", "driz_cr_snr",
                                      "driz_cr_scale", "final_bits" }
    /\ pc = "error" =>
         /\ \E k \in Range(frame.kw_list) : k \notin DOMAIN frame.mdriz_dict
         /\ frame.exc = "KeyError"
         /\ "result" \notin DOMAIN frame
    /\ pc = "gv_loop" /\ Range(frame.kw_list) \subseteq DOMAIN frame.mdriz_dict =>
         /\ "exc" \notin DOMAIN frame
         /\ DOMAIN frame.requested_params \subseteq Range(frame.kw_list)

C8_Witness ==
    /\ pc = "returned"
    /\ frame.kw_list = DefaultKwList
    /\ DOMAIN frame.mdriz_dict = MdrizKeys

\* the offset p (2^-14 arcsec) in pixels of size s, modulo one pixel
PhaseOf(p, s) == ((p * Unit) \div s) % Unit

\* C9: the X and Y pixel phase of every exposure is its POSTARG offset in
\* pixels modulo one pixel, a value in [0, 1), so offsets that differ by a
\* whole number of pixels get the same phase.
C9_PhaseIsOffsetModuloPixel ==
    Defined("x_phase") =>
        LET n == Len(kernel.flt_files)
            s == kernel.plate_scale
        IN  /\ \A i \in 1..n :
                 /\ kernel.x_phase[i] = PhaseOf(kernel.postarg1[i], s)
                 /\ kernel.y_phase[i] = PhaseOf(kernel.postarg2[i], s)
                 /\ kernel.x_phase[i] \in 0..(Unit - 1)
                 /\ kernel.y_phase[i] \in 0..(Unit - 1)
            /\ \A i, j \in 1..n :
                 /\ (kernel.postarg1[i] - kernel.postarg1[j]) % s = 0
                      => kernel.x_phase[i] = kernel.x_phase[j]
                 /\ (kernel.postarg2[i] - kernel.postarg2[j]) % s = 0
                      => kernel.y_phase[i] = kernel.y_phase[j]

IsDownload(dir, n) == dir[n].kind = "flt" /\ dir[n].origin = "mast"

\* C10: every downloaded file matching './mastDownload/HST/*/*fl?.fits'
\* ends up in the working directory under its base name, mastDownload is
\* gone after the move step, and it is removed only once all matching files
\* have been moved.
C10_MoveKeepsEveryExposure ==
    [][ /\ \A p \in DOMAIN mast :
             (MatchFl(p[2]) /\ p \notin DOMAIN mast')
                => (p[2] \in DOMAIN cwd' /\ cwd'[p[2]] = mast[p])
        /\ \A n \in DOMAIN cwd :
             IsDownload(cwd, n) => (n \in DOMAIN cwd' /\ cwd'[n] = cwd[n])
        /\ (mastExists /\ ~mastExists')
             => \A p \in DOMAIN mast : ~MatchFl(p[2])
        /\ pc' \notin { "download", "move", "move_loop", "error" }
             => (~mastExists' /\ DOMAIN mast' = {})
      ]_vars

C10_Witness ==
    /\ pc = "keywords"
    /\ ~mastExists
    /\ Cardinality({ n \in DOMAIN cwd : IsDownload(cwd, n) }) = NumExposures

NineColumns == { "filename", "DETECTOR", "EXPTIME", "WCSNAME", "NMATCHES",
                 "RMS_RA", "RMS_DEC", "RMS_RA_pix", "RMS_DEC_pix" }

\* the list col_dict[k] holds, empty for a key not yet touched
ColumnOf(d, k) == IF k \in DOMAIN d THEN d[k] ELSE <<>>

\* C11: in the alignment loop, after each fully processed file all nine
\* columns of col_dict have the same length, the number of files processed
\* so far; at loop end the WCS table has one row per input file, in the
\* order of flt_files.
C11_ColumnsGrowTogether ==
    /\ pc = "align_loop" =>
         /\ \A k \in NineColumns : Len(ColumnOf(kernel.col_dict, k)) = idx - 1
         /\ DOMAIN kernel.col_dict \subseteq NineColumns
         /\ ColumnOf(kernel.col_dict, "filename") = SubSeq(kernel.flt_files, 1, idx - 1)
    /\ Defined("wcstable") =>
         /\ DOMAIN kernel.wcstable = NineColumns
         /\ \A k \in NineColumns : Len(kernel.wcstable[k]) = Len(kernel.flt_files)
         /\ kernel.wcstable["filename"] = kernel.flt_files

C11_Witness ==
    /\ Defined("wcstable")
    /\ Len(kernel.flt_files) >= 2
    /\ Len(kernel.wcstable["RMS_DEC_pix"]) >= 2

====
